---- MODULE Spec2Model ----
(***************************************************************************)
(* Model of src/experiment.py: class SmallWorld.                           *)
(*                                                                         *)
(* The constructor builds one Watts-Strogatz graph per rewiring            *)
(* probability by calling networkx.watts_strogatz_graph(n, k, b) with no   *)
(* seed, so every draw comes from Python's module-global generator; the    *)
(* draws are therefore nondeterministic choices here.  The library calls   *)
(* (watts_strogatz_graph, average_shortest_path_length) are modelled step  *)
(* by step as networkx 2.8 (the release current at the script's date)      *)
(* executes them.                                                          *)
(*                                                                         *)
(* Probabilities are fixed-point numbers in units of 1/BetaDen: the value  *)
(* b stands for b/BetaDen, so 0 is 0.0 and BetaDen is 1.0.  random()       *)
(* returns a value of [0, 1), i.e. one of 0 .. BetaDen-1.  Floating-point  *)
(* results are exact rationals [num, den].  self.pos, the circular layouts *)
(* that only the drawing reads, is left out.                               *)
(*                                                                         *)
(* The rewiring loop advances in steps: the draw of random() and of the    *)
(* first w, then each turn of the while loop; the remove_edge/add_edge     *)
(* pair that ends an iteration is one step.                                *)
(***************************************************************************)
EXTENDS Integers, Sequences, FiniteSets, TLC

\* ------------------------------------------------------------------ bounds
\* The largest n and k offered to the constructor.
MaxN == 6
MaxK == 4
\* The most rewiring choices of an experiment: the reachable graphs multiply
\* with the pairs of a lattice edge and a node its end can move to.
MaxChoices == 18
\* The longest list of betas, and the most nodes all its graphs have together.
MaxBetas == 2
MaxTotalNodes == 8
\* The same limit for the path-length scenario, where few betas of a list rewire.
MaxPathNodes == 12
\* The resolution of probabilities: 1.0 is BetaDen.
BetaDen == 2
\* The largest n of the experiments that are run twice.
RerunMaxN == 4

\* visualize_graph's limit on the number of nodes.
MAX_VISUALIZE_NODES == 5000

VARIABLES
    n,          \* self.n
    k,          \* self.k
    beta_in,    \* the constructor's argument beta: a float or a list
    beta,       \* self.beta
    g,          \* self.g, the graphs built so far
    pc,         \* where the constructor is
    G,          \* watts_strogatz_graph's local G
    j,          \* watts_strogatz_graph's outer loop variable
    u,          \* watts_strogatz_graph's inner loop variable
    w,          \* watts_strogatz_graph's local w
    calls,      \* history: the p of every watts_strogatz_graph call
    avg_paths,  \* what the last get_avg_path() call did
    clusters,   \* what the last get_clustering_coefficient() call did
    network_cat,\* what the last print_info() call printed: one category per row
    vis,        \* what the last visualize_graph() call did
    images,     \* the image files written
    run,        \* history: how many times the experiment was started
    first_g     \* history: self.g at the end of the first run

vars == <<n, k, beta_in, beta, g, pc, G, j, u, w, calls, avg_paths, clusters,
          network_cat, vis, images, run, first_g>>

\* ------------------------------------------------------------------ graphs
\* networkx.Graph: a set of nodes and a set of undirected edges {a, b}; a
\* self-loop is the one-element set {a}.
EmptyGraph == [nodes |-> {}, edges |-> {}]

Nodes(nn) == 0 .. (nn - 1)

has_edge(gr, a, b) == {a, b} \in gr.edges

\* Graph.degree: a self-loop counts twice.
degree(gr, a) ==
    Cardinality({e \in gr.edges : a \in e}) + (IF {a} \in gr.edges THEN 1 ELSE 0)

add_edge(gr, a, b) ==
    [nodes |-> gr.nodes \cup {a, b}, edges |-> gr.edges \cup {{a, b}}]

remove_edge(gr, a, b) == [gr EXCEPT !.edges = @ \ {{a, b}}]

complete_graph(nn) ==
    [nodes |-> Nodes(nn),
     edges |-> {{a, b} : a \in Nodes(nn), b \in Nodes(nn)} \ {{a} : a \in Nodes(nn)}]

\* targets = nodes[jj:] + nodes[0:jj]; zip(nodes, targets) pairs node i with
\* the node jj places further round the ring.
Target(nn, jj, i) == (i + jj) % nn

\* G = nx.Graph(); for j in range(1, k // 2 + 1): G.add_edges_from(zip(nodes, targets))
\* Nodes enter the graph only through the edges added.
RingEdges(nn, kk) ==
    {{i, Target(nn, jj, i)} : i \in Nodes(nn), jj \in 1 .. (kk \div 2)}

ring_lattice(nn, kk) ==
    [nodes |-> UNION RingEdges(nn, kk), edges |-> RingEdges(nn, kk)]

\* ------------------------------------------------------------------ inputs
\* Probabilities offered to the constructor: below 0, 0, the smallest
\* positive step, 1, above 1.
BetaVals == {-1, 0, 1, BetaDen, BetaDen + 1}

\* random.random(): a value of [0, 1).
RandomVals == 0 .. (BetaDen - 1)

BetaLists == UNION {[1 .. len -> BetaVals] : len \in 0 .. MaxBetas}

BetaArgs ==
    {[list |-> FALSE, val |-> b] : b \in BetaVals}
        \cup {[list |-> TRUE, val |-> bs] : bs \in BetaLists}

NoResult == [state |-> "uncalled", exc |-> "", val |-> <<>>]

\* The number of betas of a constructor argument.
ArgLen(arg) == IF arg.list THEN Len(arg.val) ELSE 1

\* n * (k // 2) lattice edges, each with n - 1 - 2 * (k // 2) nodes that are
\* neither u nor joined to u in the lattice.
RewiringChoices(nn, kk) == nn * (kk \div 2) * (nn - 1 - 2 * (kk \div 2))

\* The experiments within the bounds.
Bounded(nn, kk, arg) ==
    /\ RewiringChoices(nn, kk) <= MaxChoices
    /\ ArgLen(arg) > 1 => nn * ArgLen(arg) <= MaxTotalNodes

\* The program is started with the arguments nn, kk, arg.
Start(nn, kk, arg) ==
    /\ n = nn
    /\ k = kk
    /\ beta_in = arg
    /\ beta = <<>>
    /\ g = <<>>
    /\ pc = "init"
    /\ G = EmptyGraph
    /\ j = 0
    /\ u = 0
    /\ w = 0
    /\ calls = <<>>
    /\ avg_paths = NoResult
    /\ clusters = NoResult
    /\ network_cat = NoResult
    /\ vis = NoResult
    /\ images = {}
    /\ run = 1
    /\ first_g = <<>>

Init ==
    \E nn \in 0 .. MaxN, kk \in 0 .. MaxK, arg \in BetaArgs :
        /\ Bounded(nn, kk, arg)
        /\ Start(nn, kk, arg)

\* ------------------------------------------------------------- constructor
\* if not isinstance(beta, list): self.beta = [beta]
WrapBeta(arg) == IF arg.list THEN arg.val ELSE <<arg.val>>

\* The list comprehension's position after `done` graphs of `bs`.
AfterGraph(done, bs) == IF done >= Len(bs) THEN "ready" ELSE "call"

\* Mutant: every graph is built from the first beta.
BetaIndexFirst(done) == 1

\* The index of the element of self.beta the comprehension is at.
BetaIndex(done) == done + 1

Results == <<avg_paths, clusters, network_cat, vis, images>>
History == <<run, first_g>>
Args == <<n, k, beta_in>>
Locals == <<G, j, u, w>>

\* Lines 30-33: store the arguments, wrap a scalar beta.
SmallWorldInit ==
    /\ pc = "init"
    /\ beta' = WrapBeta(beta_in)
    /\ pc' = AfterGraph(0, beta')
    /\ UNCHANGED <<Args, g, Locals, calls, Results, History>>

\* Mutant: the comparison made inclusive.
RewiresInclusive(r, p) == r <= p

\* The comparison that decides a rewiring: seed.random() < p.
Rewires(r, p) == r < p

\* watts_strogatz_graph returns gr: the comprehension appends it and moves on.
ReturnGraph(gr) ==
    /\ g' = Append(g, gr)
    /\ pc' = AfterGraph(Len(g) + 1, beta)
    /\ G' = EmptyGraph
    /\ j' = 0
    /\ u' = 0
    /\ w' = 0

\* nx.watts_strogatz_graph(self.n, self.k, b) up to its rewiring loop.
WattsStrogatzBegin ==
    /\ pc = "call"
    /\ calls' = Append(calls, beta[BetaIndex(Len(g))])
    /\ IF k > n
         THEN /\ pc' = "raised"
              /\ UNCHANGED <<g, Locals>>
         ELSE IF k = n
           THEN ReturnGraph(complete_graph(n))
           ELSE IF k \div 2 < 1
             THEN ReturnGraph(ring_lattice(n, k))
             ELSE /\ G' = ring_lattice(n, k)
                  /\ j' = 1
                  /\ u' = 0
                  /\ w' = 0
                  /\ pc' = "random"
                  /\ UNCHANGED g
    /\ UNCHANGED <<Args, beta, Results, History>>

\* The end of one iteration of `for u, v in zip(nodes, targets)` with the
\* graph now gr: the next edge, the next j, or the return.
NextEdge(gr) ==
    IF u + 1 < n
      THEN /\ G' = gr
           /\ u' = u + 1
           /\ w' = 0
           /\ pc' = "random"
           /\ UNCHANGED <<g, j>>
      ELSE IF j + 1 <= k \div 2
        THEN /\ G' = gr
             /\ j' = j + 1
             /\ u' = 0
             /\ w' = 0
             /\ pc' = "random"
             /\ UNCHANGED g
        ELSE ReturnGraph(gr)

\* if seed.random() < p: w = seed.choice(nodes)
RewireRandom ==
    /\ pc = "random"
    /\ \E r \in RandomVals :
         IF Rewires(r, calls[Len(calls)])
           THEN \E w0 \in Nodes(n) :
                  /\ w' = w0
                  /\ pc' = "while"
                  /\ UNCHANGED <<g, G, j, u>>
           ELSE NextEdge(G)
    /\ UNCHANGED <<Args, beta, calls, Results, History>>

\* Mutant: an endpoint already joined to u is accepted.
RejectedSelfOnly(gr, a, b) == b = a

\* The while loop's condition: w must be drawn again.
Rejected(gr, a, b) == b = a \/ has_edge(gr, a, b)

\* Mutant: the new edge leaves from v, not from u.
RewiredFarEnd(gr, a, b, c) == add_edge(remove_edge(gr, a, b), b, c)

\* G.remove_edge(u, v); G.add_edge(u, w)
Rewired(gr, a, b, c) == add_edge(remove_edge(gr, a, b), a, c)

\* while w == u or G.has_edge(u, w): w = choice(nodes); if G.degree(u) >= n - 1: break
\* else: G.remove_edge(u, v); G.add_edge(u, w)
RewireWhile ==
    /\ pc = "while"
    /\ IF Rejected(G, u, w)
         THEN \E w1 \in Nodes(n) :
                IF degree(G, u) >= n - 1
                  THEN NextEdge(G)
                  ELSE /\ w' = w1
                       /\ UNCHANGED <<g, G, j, u, pc>>
         ELSE NextEdge(Rewired(G, u, Target(n, j, u), w))
    /\ UNCHANGED <<Args, beta, calls, Results, History>>

\* ----------------------------------------------------------------- metrics
Returned(v) == [state |-> "returned", exc |-> "", val |-> v]
Raised(e) == [state |-> "raised", exc |-> e, val |-> <<>>]

\* The nodes one edge away from `frontier` that are not in `seen`.
Frontier(gr, frontier, seen) ==
    {b \in gr.nodes \ seen : \E a \in frontier : {a, b} \in gr.edges}

\* Breadth-first search: the nodes reachable from `frontier`, given `seen`.
RECURSIVE Reach(_, _, _)
Reach(gr, frontier, seen) ==
    IF frontier = {}
      THEN seen
      ELSE LET nxt == Frontier(gr, frontier, seen)
           IN  Reach(gr, nxt, seen \cup nxt)

\* nx.is_connected: a search from one node finds every node.
is_connected(gr) ==
    LET s == CHOOSE a \in gr.nodes : TRUE
    IN  Reach(gr, {s}, {s}) = gr.nodes

\* The sum of the shortest path lengths from the nodes of `frontier`'s source,
\* `frontier` being the nodes at distance d.
RECURSIVE PathSum(_, _, _, _)
PathSum(gr, frontier, seen, d) ==
    IF frontier = {}
      THEN 0
      ELSE LET nxt == Frontier(gr, frontier, seen)
           IN  d * Cardinality(frontier) + PathSum(gr, nxt, seen \cup nxt, d + 1)

RECURSIVE SumOver(_, _)
SumOver(f, S) ==
    IF S = {}
      THEN 0
      ELSE LET a == CHOOSE x \in S : TRUE
           IN  f[a] + SumOver(f, S \ {a})

\* sum(l for u in G for l in path_length(u).values())
TotalPathLength(gr) ==
    SumOver([s \in gr.nodes |-> PathSum(gr, {s}, {s}, 0)], gr.nodes)

\* Mutant: connectivity is not checked.
AvgPathErrorUnchecked(gr) ==
    IF gr.nodes = {} THEN "NetworkXPointlessConcept" ELSE ""

\* The exception nx.average_shortest_path_length(gr) raises, "" if none.
AvgPathError(gr) ==
    IF gr.nodes = {}
      THEN "NetworkXPointlessConcept"
      ELSE IF Cardinality(gr.nodes) > 1 /\ ~is_connected(gr)
        THEN "NetworkXError"
        ELSE ""

\* nx.average_shortest_path_length(gr) when it returns: s / (n * (n - 1)).
average_shortest_path_length(gr) ==
    LET nn == Cardinality(gr.nodes)
    IN  IF nn = 1
          THEN [num |-> 0, den |-> 1]
          ELSE [num |-> TotalPathLength(gr), den |-> nn * (nn - 1)]

\* [nx.average_shortest_path_length(g) for g in self.g]: the first graph that
\* raises ends the comprehension.
AvgPathsOf(gs) ==
    LET bad == {i \in 1 .. Len(gs) : AvgPathError(gs[i]) # ""}
    IN  IF bad = {}
          THEN Returned([i \in 1 .. Len(gs) |-> average_shortest_path_length(gs[i])])
          ELSE Raised(AvgPathError(gs[CHOOSE i \in bad : \A i2 \in bad : i <= i2]))

get_avg_path ==
    /\ pc = "ready"
    /\ avg_paths' = AvgPathsOf(g)
    /\ UNCHANGED <<Args, beta, g, pc, Locals, calls, clusters, network_cat, vis,
                   images, History>>

\* 3*(self.k-2)/4*(self.k-1): Python divides by 4 and then multiplies by k-1.
LatticeTerm(kk) == [num |-> 3 * (kk - 2) * (kk - 1), den |-> 4]

\* (1-betas)**3 with betas in units of 1/BetaDen.
OneMinusCubed(b) ==
    [num |-> (BetaDen - b) * (BetaDen - b) * (BetaDen - b),
     den |-> BetaDen * BetaDen * BetaDen]

Times(x, y) == [num |-> x.num * y.num, den |-> x.den * y.den]

\* The three np.where selections over np.zeros, for one beta.
ClusteringOf(nn, kk, b) ==
    IF b > 0 /\ b < BetaDen
      THEN Times(LatticeTerm(kk), OneMinusCubed(b))
      ELSE IF b = BetaDen
        THEN [num |-> kk, den |-> nn]
        ELSE IF b = 0
          THEN LatticeTerm(kk)
          ELSE [num |-> 0, den |-> 1]

\* self.k/self.n is evaluated whatever the betas are.
ClustersOf(nn, kk, bs) ==
    IF nn = 0
      THEN Raised("ZeroDivisionError")
      ELSE Returned([i \in 1 .. Len(bs) |-> ClusteringOf(nn, kk, bs[i])])

get_clustering_coefficient ==
    /\ pc = "ready"
    /\ clusters' = ClustersOf(n, k, beta)
    /\ UNCHANGED <<Args, beta, g, pc, Locals, calls, avg_paths, network_cat, vis,
                   images, History>>

\* Mutant: the last two categories exchanged.
NetworkCatExchanged(b) ==
    IF b = 0
      THEN "Regular network (Ring lattice)"
      ELSE IF b = BetaDen
        THEN "Small-world network"
        ELSE "Random network"

\* print_info's choice of network_cat for one beta.
NetworkCat(b) ==
    IF b = 0
      THEN "Regular network (Ring lattice)"
      ELSE IF b = BetaDen
        THEN "Random network"
        ELSE "Small-world network"

\* print_info(avg_paths, clusters) with the lists the two getters returned.
print_info ==
    /\ pc = "ready"
    /\ avg_paths.state = "returned"
    /\ clusters.state = "returned"
    /\ network_cat' = Returned([i \in 1 .. Len(beta) |-> NetworkCat(beta[i])])
    /\ UNCHANGED <<Args, beta, g, pc, Locals, calls, avg_paths, clusters, vis,
                   images, History>>

\* Mutant: the limit written with one zero too many.
TooLargeTenfold(nn) == nn > 10 * MAX_VISUALIZE_NODES

\* if self.n > 5000
TooLarge(nn) == nn > MAX_VISUALIZE_NODES

\* plt.savefig(f"graph{idx}.png") for idx, b in enumerate(self.beta)
ImageFiles(bs) == {idx - 1 : idx \in 1 .. Len(bs)}

\* What visualize_graph does: the size check, the two metrics, the images.
VisualizeOutcome(nn, kk, bs, gs) ==
    IF TooLarge(nn)
      THEN Raised("ValueError")
      ELSE IF AvgPathsOf(gs).state = "raised"
        THEN Raised(AvgPathsOf(gs).exc)
        ELSE IF ClustersOf(nn, kk, bs).state = "raised"
          THEN Raised(ClustersOf(nn, kk, bs).exc)
          ELSE Returned(<<>>)

visualize_graph ==
    /\ pc = "ready"
    /\ vis' = VisualizeOutcome(n, k, beta, g)
    /\ images' = IF vis'.state = "returned" THEN images \cup ImageFiles(beta) ELSE images
    /\ UNCHANGED <<Args, beta, g, pc, Locals, calls, avg_paths, clusters,
                   network_cat, History>>

\* The experiment is run again with the same arguments: nothing of the first
\* run is handed to the second, and the generator is not seeded.
Rerun ==
    /\ pc = "ready"
    /\ run = 1
    /\ run' = 2
    /\ first_g' = g
    /\ beta' = <<>>
    /\ g' = <<>>
    /\ pc' = "init"
    /\ calls' = <<>>
    /\ avg_paths' = NoResult
    /\ clusters' = NoResult
    /\ network_cat' = NoResult
    /\ vis' = NoResult
    /\ UNCHANGED <<Args, Locals, images>>

Next ==
    \/ SmallWorldInit
    \/ WattsStrogatzBegin
    \/ RewireRandom
    \/ RewireWhile
    \/ get_avg_path
    \/ get_clustering_coefficient
    \/ print_info
    \/ visualize_graph

Spec == Init /\ [][Next]_vars

\* The visualization scenario: the constructor, then visualize_graph, for the
\* experiments of Init and for graphs one node over the limit (k = 2: the ring;
\* k = 1: k // 2 is 0 and the graph comes back without an edge).
InitVis ==
    \/ Init
    \/ \E kk \in 1 .. 2 : Start(MAX_VISUALIZE_NODES + 1, kk, [list |-> FALSE, val |-> 0])

NextVis ==
    \/ SmallWorldInit
    \/ WattsStrogatzBegin
    \/ RewireRandom
    \/ RewireWhile
    \/ visualize_graph

SpecVis == InitVis /\ [][NextVis]_vars

\* The path-length scenario: the constructor, then get_avg_path; lists of
\* betas go with larger graphs here, as long as few of the betas rewire.
PositiveBetas(arg) ==
    IF arg.list
      THEN Cardinality({i \in 1 .. Len(arg.val) : arg.val[i] > 0})
      ELSE IF arg.val > 0 THEN 1 ELSE 0

BoundedPaths(nn, kk, arg) ==
    /\ RewiringChoices(nn, kk) <= MaxChoices
    /\ ArgLen(arg) > 1 => nn * ArgLen(arg) <= MaxPathNodes
    /\ nn * PositiveBetas(arg) <= MaxTotalNodes

InitPaths ==
    \E nn \in 0 .. MaxN, kk \in 0 .. MaxK, arg \in BetaArgs :
        /\ BoundedPaths(nn, kk, arg)
        /\ Start(nn, kk, arg)

NextPaths ==
    \/ SmallWorldInit
    \/ WattsStrogatzBegin
    \/ RewireRandom
    \/ RewireWhile
    \/ get_avg_path

SpecPaths == InitPaths /\ [][NextPaths]_vars

\* The experiment run twice with the same arguments.
InitRerun ==
    \E nn \in 0 .. RerunMaxN, kk \in 0 .. MaxK, arg \in BetaArgs :
        /\ Bounded(nn, kk, arg)
        /\ Start(nn, kk, arg)

NextRerun ==
    \/ SmallWorldInit
    \/ WattsStrogatzBegin
    \/ RewireRandom
    \/ RewireWhile
    \/ Rerun

SpecRerun == InitRerun /\ [][NextRerun]_vars

\* ------------------------------------------------------------------ claims
\* n > k > 0 with k even: the (n, k) the Watts-Strogatz model is defined for.
ValidNK(nn, kk) == kk > 0 /\ kk % 2 = 0 /\ kk < nn

\* A probability of [0, 1].
ValidBeta(b) == b >= 0 /\ b <= BetaDen

\* The betas the constructor was given, in order.
InputBetas == IF beta_in.list THEN beta_in.val ELSE <<beta_in.val>>

ValidInput == ValidNK(n, k) /\ \A i \in 1 .. Len(InputBetas) : ValidBeta(InputBetas[i])

\* The rewiring loop of a watts_strogatz_graph call is running.
Rewiring == pc \in {"random", "while"}

\* The graphs that exist, each with the p it was or is being built with: the
\* finished ones and the one under rewiring.
Built ==
    {[p |-> calls[i], gr |-> g[i]] : i \in 1 .. Len(g)}
        \cup (IF Rewiring THEN {[p |-> calls[Len(calls)], gr |-> G]} ELSE {})

\* The distance between two nodes round the ring of nn nodes.
RingDistance(nn, a, b) ==
    IF (a - b) % nn <= (b - a) % nn THEN (a - b) % nn ELSE (b - a) % nn

\* The ring lattice as the pairs of nodes at most k/2 apart round the ring.
NearestNeighbourEdges(nn, kk) ==
    {e \in {{a, b} : a \in Nodes(nn), b \in Nodes(nn)} :
        \E a \in e, b \in e :
            a # b /\ e = {a, b} /\ RingDistance(nn, a, b) <= kk \div 2}

\* The number of edges at node a, counted from the edge set.
EdgesAt(gr, a) == Cardinality({e \in gr.edges : a \in e})

\* Some pair of nodes has no path: the nodes split into two parts no edge joins.
Disconnected(gr) ==
    \E S \in SUBSET gr.nodes :
        /\ S # {}
        /\ S # gr.nodes
        /\ \A e \in gr.edges : e \subseteq S \/ e \cap S = {}

\* C1: for valid (n, k) and beta in [0, 1], after any sequence of rewiring
\* steps the graph has exactly n*k/2 edges and is simple: every edge joins two
\* different nodes of 0 .. n-1 (the edge set holds no edge twice).
C1_EdgeCountPreserved ==
    ValidNK(n, k) =>
        \A b \in Built :
            ValidBeta(b.p) =>
                /\ Cardinality(b.gr.edges) = (n * k) \div 2
                /\ \A e \in b.gr.edges : Cardinality(e) = 2 /\ e \subseteq Nodes(n)

\* A finished graph of a valid experiment that rewiring has changed.
C1_Witness ==
    /\ ValidInput
    /\ pc = "ready"
    /\ \E i \in 1 .. Len(g) : g[i].edges # NearestNeighbourEdges(n, k)

\* C2: for valid (n, k), the clustering coefficient returned for a beta equal
\* to 0 equals 3*(k-2) / (4*(k-1)).
C2_LatticeClustering ==
    (ValidNK(n, k) /\ clusters.state = "returned") =>
        \A i \in 1 .. Len(beta) :
            beta[i] = 0 =>
                clusters.val[i].num * (4 * (k - 1)) = 3 * (k - 2) * clusters.val[i].den

\* C3: on invalid parameters (k odd, k <= 0, k >= n, n <= 0, a beta outside
\* [0, 1]) the constructor fails before any graph is built: no graph ever
\* exists, finished or under construction, for any beta of the list.
C3_InvalidFailsFast ==
    ~ValidInput => Built = {}

\* C4: for valid (n, k), whatever is drawn, the graph built with beta = 0 has
\* exactly the edges that join each node to the k/2 nodes on each side of it,
\* so every node has degree k and there are n*k/2 edges.
C4_BetaZeroIsLattice ==
    ValidNK(n, k) =>
        \A b \in Built :
            b.p = 0 =>
                /\ b.gr.edges = NearestNeighbourEdges(n, k)
                /\ b.gr.nodes = Nodes(n)
                /\ \A a \in Nodes(n) : EdgesAt(b.gr, a) = k
                /\ Cardinality(b.gr.edges) = (n * k) \div 2

\* A finished valid experiment with a beta = 0 graph beside a graph that
\* rewiring changed: draws were made, and the beta = 0 graph ignored them.
C4_Witness ==
    /\ ValidInput
    /\ pc = "ready"
    /\ \E i \in 1 .. Len(g), i2 \in 1 .. Len(g) : calls[i] = 0 /\ g[i2] # g[i]

C6_Reproducible ==
    (run = 2 /\ pc = "ready") => g = first_g

\* The i-th graph was built with the i-th input beta, and one graph exists per
\* input beta once the constructor is done.
GraphsAligned ==
    /\ Len(calls) <= Len(InputBetas)
    /\ \A i \in 1 .. Len(calls) : calls[i] = InputBetas[i]
    /\ pc = "ready" => Len(g) = Len(InputBetas)

\* The i-th clustering coefficient is the formula's value at the i-th input beta.
ClustersAligned ==
    clusters.state # "uncalled" =>
        /\ clusters.state = "returned"
        /\ DOMAIN clusters.val = 1 .. Len(InputBetas)
        /\ \A i \in 1 .. Len(InputBetas) :
              clusters.val[i] = ClusteringOf(n, k, InputBetas[i])

\* The i-th average path length is that of the i-th graph.
PathsAligned ==
    /\ avg_paths.state = "returned"
    /\ DOMAIN avg_paths.val = 1 .. Len(InputBetas)
    /\ \A i \in 1 .. Len(g) :
          /\ avg_paths.val[i].den = n * (n - 1)
          /\ avg_paths.val[i].num >= avg_paths.val[i].den
          /\ calls[i] = 0 => avg_paths.val[i] = average_shortest_path_length(ring_lattice(n, k))

\* C7 as stated: for a non-empty list of betas the runner yields one graph, one
\* average path length and one clustering coefficient per beta, in input order.
C7_OnePerBeta ==
    (ValidInput /\ Len(InputBetas) > 0) =>
        /\ GraphsAligned
        /\ ClustersAligned
        /\ avg_paths.state # "uncalled" => PathsAligned

\* C7 amended: one graph and one clustering coefficient per beta, in input
\* order; one average path length per beta, in input order, when every graph
\* is connected, and none at all when some graph is not.
C7_OnePerBetaIfConnected ==
    (ValidInput /\ Len(InputBetas) > 0) =>
        /\ GraphsAligned
        /\ ClustersAligned
        /\ avg_paths.state # "uncalled" =>
              IF \E i \in 1 .. Len(g) : Disconnected(g[i])
                THEN avg_paths.val = <<>>
                ELSE PathsAligned

\* Both metrics were returned for a list of two different betas whose graphs differ.
C7_Witness ==
    /\ ValidInput
    /\ Len(InputBetas) = 2
    /\ InputBetas[1] # InputBetas[2]
    /\ avg_paths.state = "returned"
    /\ clusters.state = "returned"
    /\ g[1] # g[2]

C9_Classify ==
    /\ network_cat.state # "raised"
    /\ network_cat.state = "returned" =>
          /\ DOMAIN network_cat.val = 1 .. Len(InputBetas)
          /\ \A i \in 1 .. Len(InputBetas) :
                ValidBeta(InputBetas[i]) =>
                  /\ network_cat.val[i] = "Regular network (Ring lattice)"
                        <=> InputBetas[i] = 0
                  /\ network_cat.val[i] = "Random network"
                        <=> InputBetas[i] = BetaDen
                  /\ network_cat.val[i] = "Small-world network"
                        <=> (0 < InputBetas[i] /\ InputBetas[i] < BetaDen)

\* print_info printed the small-world category for a beta strictly between 0 and 1.
C9_Witness ==
    /\ network_cat.state = "returned"
    /\ \E i \in 1 .. Len(InputBetas) :
          /\ 0 < InputBetas[i]
          /\ InputBetas[i] < BetaDen
          /\ network_cat.val[i] = "Small-world network"

\* C10: for valid (n, k) and beta in [0, 1], during and after rewiring every
\* node has at least k/2 edges, so no node is ever isolated.
C10_MinDegree ==
    ValidNK(n, k) =>
        \A b \in Built :
            ValidBeta(b.p) =>
                \A a \in Nodes(n) : a \in b.gr.nodes /\ 2 * EdgesAt(b.gr, a) >= k

\* A finished graph of a valid experiment with k = 4 in which rewiring left a
\* node with exactly k/2 edges.
C10_Witness ==
    /\ ValidInput
    /\ pc = "ready"
    /\ k = 4
    /\ \E i \in 1 .. Len(g), a \in Nodes(n) : 2 * EdgesAt(g[i], a) = k

====
